---- MODULE Spec2Model ----
(***************************************************************************)
(* State-machine model of split_pdf.py: the range-table parser             *)
(* (read_ranges_csv) and the split loop of main().                         *)
(*                                                                         *)
(* Text is a sequence of one-character strings.  A CSV file is the list of *)
(* rows csv.reader yields, each row a list of cells, each cell a sequence  *)
(* of bytes: an ASCII byte is written as its character, "0xE9" and "0x81"  *)
(* are single high bytes.  The output directory is a set of files, each a  *)
(* name and a content.                                                     *)
(***************************************************************************)
EXTENDS Integers, Sequences, FiniteSets, TLC

(***************************************************************************)
(* Bounds of the model.                                                    *)
(***************************************************************************)
MaxRows == 2
MaxPages == 2
MaxRuns == 2

(***************************************************************************)
(* str methods used by the program.                                        *)
(***************************************************************************)
UpperCase == <<"A","B","C","D","E","F","G","H","I","J","K","L","M",
               "N","O","P","Q","R","S","T","U","V","W","X","Y","Z">>

LowerCase == <<"a","b","c","d","e","f","g","h","i","j","k","l","m",
               "n","o","p","q","r","s","t","u","v","w","x","y","z">>

LowerMap ==
    [c \in {UpperCase[k] : k \in 1..26} |-> LowerCase[CHOOSE k \in 1..26 : UpperCase[k] = c]]

LowerChar(c) == IF c \in DOMAIN LowerMap THEN LowerMap[c] ELSE c

lower(s) == [k \in 1..Len(s) |-> LowerChar(s[k])]

Whitespace == {" ", "\t"}

MinOf(S) == CHOOSE x \in S : \A y \in S : x <= y

MaxOf(S) == CHOOSE x \in S : \A y \in S : x >= y

strip(s) ==
    LET keep == {k \in 1..Len(s) : s[k] \notin Whitespace}
    IN IF keep = {} THEN <<>> ELSE SubSeq(s, MinOf(keep), MaxOf(keep))

endswith(s, suf) ==
    /\ Len(s) >= Len(suf)
    /\ SubSeq(s, Len(s) - Len(suf) + 1, Len(s)) = suf

contains(s, sub) ==
    \E k \in 0..(Len(s) - Len(sub)) : SubSeq(s, k + 1, k + Len(sub)) = sub

DigitChars == <<"0","1","2","3","4","5","6","7","8","9">>

DigitMap ==
    [c \in {DigitChars[k] : k \in 1..10} |-> (CHOOSE k \in 1..10 : DigitChars[k] = c) - 1]

IsDigit(c) == c \in DOMAIN DigitMap

DigitVal(c) == DigitMap[c]

\* The text int() accepts: an optional sign, then digits, single underscores
\* allowed between digits.
IntBody(s) == IF s # <<>> /\ s[1] \in {"+", "-"} THEN Tail(s) ELSE s

IsIntText(s) ==
    LET b == IntBody(s)
    IN /\ b # <<>>
       /\ \A k \in 1..Len(b) : IsDigit(b[k]) \/ b[k] = "_"
       /\ IsDigit(b[1])
       /\ IsDigit(b[Len(b)])
       /\ \A k \in 1..(Len(b) - 1) : ~(b[k] = "_" /\ b[k + 1] = "_")

RECURSIVE DigitsValue(_)
DigitsValue(b) ==
    IF b = <<>> THEN 0
    ELSE LET front == SubSeq(b, 1, Len(b) - 1)
             c == b[Len(b)]
         IN IF c = "_" THEN DigitsValue(front)
            ELSE 10 * DigitsValue(front) + DigitVal(c)

int(s) == IF s[1] = "-" THEN 0 - DigitsValue(IntBody(s)) ELSE DigitsValue(IntBody(s))

\* str(n) of a natural number, as the f-string formats the counter.
RECURSIVE IntToStr(_)
IntToStr(n) ==
    IF n < 10 THEN <<DigitChars[n + 1]>>
    ELSE IntToStr(n \div 10) \o <<DigitChars[(n % 10) + 1]>>

(***************************************************************************)
(* Words.                                                                  *)
(***************************************************************************)
W_start == <<"s","t","a","r","t">>
W_stop == <<"s","t","o","p">>
W_filename == <<"f","i","l","e","n","a","m","e">>
W_pdf == <<".","p","d","f">>

(***************************************************************************)
(* Decoding.  encodings_to_try, and what each codec does to the bytes of   *)
(* the model: 0xE9 and 0x81 alone are invalid UTF-8; cp1252 maps 0xE9 to   *)
(* U+00E9 and has no character for 0x81.  A byte-order mark EF BB BF at    *)
(* the head of the file is dropped by utf-8-sig, is U+FEFF under utf-8 and *)
(* three characters under cp1252.                                          *)
(***************************************************************************)
encodings_to_try == <<"utf-8-sig", "utf-8", "cp1252">>

BadBytes(e) == IF e = "cp1252" THEN {"0x81"} ELSE {"0xE9", "0x81"}

RowDecodes(e, row) ==
    \A c \in 1..Len(row) : \A k \in 1..Len(row[c]) : row[c][k] \notin BadBytes(e)

DecodeCell(e, cell) ==
    [k \in 1..Len(cell) |-> IF cell[k] = "0xE9" THEN "U+00E9" ELSE cell[k]]

BomText(e) ==
    IF e = "utf-8-sig" THEN <<>>
    ELSE IF e = "utf-8" THEN <<"U+FEFF">>
    ELSE <<"U+00EF", "U+00BB", "U+00BF">>

\* Row r of the file as csv.reader yields it under encoding e.
DecodedRow(e, f, r) ==
    LET row == [c \in 1..Len(f.rows[r]) |-> DecodeCell(e, f.rows[r][c])]
        pre == IF f.bom /\ r = 1 THEN BomText(e) ELSE <<>>
    IN IF pre = <<>> THEN row
       ELSE IF row = <<>> THEN <<pre>>
       ELSE [row EXCEPT ![1] = pre \o row[1]]

\* The text layer decodes one read buffer at a time: the rows that share the
\* buffer of row r are decoded together, when the first of them is read.
ChunkOf(f, r) ==
    LET first == ((r - 1) \div f.chunk) * f.chunk + 1
        last == IF first + f.chunk - 1 < Len(f.rows) THEN first + f.chunk - 1
                ELSE Len(f.rows)
    IN first..last

DecodeFailsAt(e, f, r) ==
    /\ (r - 1) % f.chunk = 0
    /\ \E q \in ChunkOf(f, r) : ~RowDecodes(e, f.rows[q])

(***************************************************************************)
(* Row tests of read_ranges_csv.                                           *)
(***************************************************************************)
IsBlankRow(row) ==
    row = <<>> \/ \A c \in 1..Len(row) : strip(row[c]) = <<>>

LooksLikeHeader(row) ==
    LET c0 == strip(row[1])
        c1 == strip(row[2])
        c2 == strip(row[3])
        header_tokens == {lower(c0), lower(c1), lower(c2)}
    IN \/ contains(lower(c0), W_start)
       \/ contains(lower(c1), W_stop)
       \/ contains(lower(c2), W_filename)
       \/ {W_start, W_stop, W_filename} \subseteq header_tokens

IsHeaderRow(r_idx_, row) == r_idx_ = 1 /\ LooksLikeHeader(row)

PagesAreInts(row) == IsIntText(strip(row[1])) /\ IsIntText(strip(row[2]))

RowRecord(row) == <<int(strip(row[1])), int(strip(row[2])), strip(row[3])>>

(***************************************************************************)
(* pathlib and the output directory.  A file of the directory is a name    *)
(* and its data; caseFold says whether the file system compares names      *)
(* without regard to case.  The directory has no subdirectory, so a path   *)
(* with a "/" cannot be opened for writing.                                *)
(***************************************************************************)
PathName(p) ==
    LET seps == {k \in 1..Len(p) : p[k] = "/"}
    IN IF seps = {} THEN p ELSE SubSeq(p, MaxOf(seps) + 1, Len(p))

\* Variant: the name is used where the stem is meant.
PathStem_KeepsSuffix(p) == PathName(p)

PathStem(p) ==
    LET name == PathName(p)
        dots == {k \in 1..Len(name) : name[k] = "."}
    IN IF dots # {} /\ MaxOf(dots) > 1 /\ MaxOf(dots) < Len(name)
       THEN SubSeq(name, 1, MaxOf(dots) - 1)
       ELSE name

SameFile(fold, a, b) == IF fold THEN lower(a) = lower(b) ELSE a = b

\* Variant: the test compares the names as written.
exists_ExactName(dir, fold, p) == \E f \in dir : f.name = p

exists(dir, fold, p) == \E f \in dir : SameFile(fold, f.name, p)

OpenFails(p) == \E k \in 1..Len(p) : p[k] = "/"

\* open(path, "wb") then write: the file of that path now holds data.
WriteFile(dir, fold, p, data) ==
    {f \in dir : ~SameFile(fold, f.name, p)} \cup {[name |-> p, data |-> data]}

\* The steps of main() between the range checks and the collision loop.
NormalizedName(name) ==
    LET t == strip(name)
    IN IF endswith(lower(t), W_pdf) THEN t ELSE t \o W_pdf

\* range(a, b), as the sequence of its values.
PyRange(a, b) == [k \in 1..(IF b > a THEN b - a ELSE 0) |-> a + k - 1]

\* reader.pages[p]: a page of the source is modelled by its 1-based number.
ReaderPage(p) == p + 1

\* Variant: the 1-based start is used as a 0-based index.
ExtractPages_OneBased(start_page, end_page) ==
    LET idx == PyRange(start_page, end_page)
    IN [k \in 1..Len(idx) |-> ReaderPage(idx[k])]

ExtractPages(start_page, end_page) ==
    LET idx == PyRange(start_page - 1, end_page)
    IN [k \in 1..Len(idx) |-> ReaderPage(idx[k])]

SuffixedName(stem, k) == stem \o <<"_">> \o IntToStr(k) \o W_pdf

\* Variant: the check against the page count is left out.
RangeCheck_NoTotalCheck(start_page, end_page, total) ==
    IF start_page < 1 \/ end_page < 1 THEN "pages_lt_1"
    ELSE IF end_page < start_page THEN "end_lt_start"
    ELSE "ok"

\* Variant: the order of the first two checks is exchanged.
RangeCheck_OrderFirst(start_page, end_page, total) ==
    IF end_page < start_page THEN "end_lt_start"
    ELSE IF start_page < 1 \/ end_page < 1 THEN "pages_lt_1"
    ELSE IF end_page > total THEN "exceeds_total"
    ELSE "ok"

\* The three sanity checks of main(), in the order of the code: the kind of
\* the first that fails, "ok" when none does.
RangeCheck(start_page, end_page, total) ==
    IF start_page < 1 \/ end_page < 1 THEN "pages_lt_1"
    ELSE IF end_page < start_page THEN "end_lt_start"
    ELSE IF end_page > total THEN "exceeds_total"
    ELSE "ok"

(***************************************************************************)
(* Inputs.                                                                 *)
(***************************************************************************)
SeqsUpTo(S, n) == UNION {[1..m -> S] : m \in 0..n}

T(s) == <<s>>

N_a == <<"a">>
N_a_pdf == <<"a",".","p","d","f">>
N_a_PDF == <<"a",".","P","D","F">>
N_a_1 == <<"a","_","1">>
N_a_1_pdf == <<"a","_","1",".","p","d","f">>
N_b == <<"b">>
N_d_a == <<"d","/","a">>

\* Rows that exercise the parser.
ParseRows ==
    { <<>>,
      << <<>>, <<" ">> >>,
      << W_start, W_stop, W_filename >>,
      << <<"S","t","a","r","t"," ","p","g">>, <<"e","n","d">>, <<"F","i","l","e">> >>,
      << W_filename, W_start, W_stop >>,
      << W_start, W_stop >>,
      << T("1"), T("2"), N_a >>,
      << <<" ","-","1"," ">>, <<"+","2">>, <<" ","b",".","p","d","f"," ">>, T("x") >>,
      << T("1"), T("x"), <<"o","u","t">> >>,
      << T("1"), T("2"), <<" ">> >>,
      << T("1"), T("2") >>,
      << T("1"), T("1"), <<"a","0xE9">> >>,
      << T("1"), T("1"), <<"a","0x81">> >> }

\* Well-formed rows whose page ranges lie at and around the bounds of a
\* document of up to MaxPages pages.
RangePairs ==
    { <<0, 1>>, <<1, 0>>, <<2, 1>>, <<1, 1>>, <<1, MaxPages>>,
      <<MaxPages, MaxPages>>, <<1, MaxPages + 1>> }

RangeRows == {<<IntToStr(p[1]), IntToStr(p[2]), N_a>> : p \in RangePairs}

\* Well-formed rows of one page whose names collide in various ways.
Names == {N_a, N_a_pdf, N_a_PDF, N_a_1, N_b, N_d_a}

NameRows == {<<T("1"), T("1"), n>> : n \in Names}

OldData == [pages |-> <<>>, tag |-> <<0, 0>>]

OldFiles == {[name |-> N_a_pdf, data |-> OldData], [name |-> N_a_1_pdf, data |-> OldData]}

ChunkSizes == {1, 2}

VARIABLES
    file,           \* the range table: [rows, bom, chunk]
    total_pages,    \* len(reader.pages)
    caseFold,       \* the file system ignores case
    fs,             \* the files of out_dir
    run,            \* number of the current run of main()
    pc,             \* position in the program
    enc,            \* index in encodings_to_try
    r_idx,          \* rows read in the current attempt
    rows,           \* records collected in the current attempt
    last_err,       \* encoding of the last decoding failure, or "None"
    ranges,         \* the parser's result
    i,              \* 1-based position of the current record
    output_file,    \* normalized output name of the current record
    writer,         \* pages added to the PdfWriter
    out_path,       \* candidate path, relative to out_dir
    counter,        \* collision counter
    original_stem,  \* stem of the normalized name
    err,            \* the uncaught exception, kind "none" while running
    stdout,         \* the lines printed
    tried,          \* history: encodings opened in this run
    skipped,        \* history: rows skipped in the current attempt
    dropped,        \* history: records discarded by a decoding failure
    written         \* history: the writes of all runs, in order

vars == <<file, total_pages, caseFold, fs, run, pc, enc, r_idx, rows, last_err,
          ranges, i, output_file, writer, out_path, counter, original_stem,
          err, stdout, tried, skipped, dropped, written>>

envVars == <<file, total_pages, caseFold>>

parserVars == <<enc, r_idx, rows, last_err, tried, skipped, dropped>>

loopVars == <<output_file, writer, out_path, counter, original_stem>>

NoErr == [kind |-> "none", row |-> 0, detail |-> "None"]

\* The state at the call of read_ranges_csv (line 137).
StartOfRun ==
    /\ pc = "open"
    /\ enc = 1
    /\ r_idx = 0
    /\ rows = <<>>
    /\ last_err = "None"
    /\ ranges = <<>>
    /\ i = 0
    /\ output_file = <<>>
    /\ writer = <<>>
    /\ out_path = <<>>
    /\ counter = 0
    /\ original_stem = <<>>
    /\ err = NoErr
    /\ stdout = <<>>
    /\ tried = <<>>
    /\ skipped = {}
    /\ dropped = 0

\* The size of the read buffer matters only to a file with a byte that some
\* encoding cannot decode.
InitParse ==
    /\ file \in [rows : SeqsUpTo(ParseRows, MaxRows), bom : BOOLEAN, chunk : ChunkSizes]
    /\ (\A r \in 1..Len(file.rows) : RowDecodes("utf-8", file.rows[r])) => file.chunk = 1
    /\ total_pages = 1
    /\ caseFold = FALSE
    /\ fs = {}

InitRanges ==
    /\ file \in [rows : SeqsUpTo(RangeRows, MaxRows), bom : {FALSE}, chunk : {1}]
    /\ total_pages \in 1..MaxPages
    /\ caseFold = FALSE
    /\ fs = {}

InitNames ==
    /\ file \in [rows : SeqsUpTo(NameRows, MaxRows), bom : {FALSE}, chunk : {1}]
    /\ total_pages = 1
    /\ caseFold \in BOOLEAN
    /\ fs \in SUBSET OldFiles

Init ==
    /\ InitParse \/ InitRanges \/ InitNames
    /\ run = 1
    /\ written = <<>>
    /\ StartOfRun

(***************************************************************************)
(* read_ranges_csv.                                                        *)
(***************************************************************************)
CurEnc == encodings_to_try[enc]

NextRow == DecodedRow(CurEnc, file, r_idx + 1)

\* A row is there to read and its buffer decodes.
RowRead ==
    /\ pc = "read"
    /\ r_idx < Len(file.rows)
    /\ ~DecodeFailsAt(CurEnc, file, r_idx + 1)

Raise(kind, row, detail) ==
    /\ err' = [kind |-> kind, row |-> row, detail |-> detail]
    /\ pc' = "failed"

\* Variant: the list of records is created once, before the loop.
OpenAttempt_KeepsRows ==
    /\ pc = "open"
    /\ pc' = "read"
    /\ r_idx' = 0
    /\ skipped' = {}
    /\ tried' = Append(tried, CurEnc)
    /\ UNCHANGED <<envVars, fs, run, enc, rows, last_err, ranges, i, loopVars, err,
                   stdout, dropped, written>>

\* Lines 39-44: the next encoding is tried on the file from its start.
OpenAttempt ==
    /\ pc = "open"
    /\ pc' = "read"
    /\ r_idx' = 0
    /\ rows' = <<>>
    /\ skipped' = {}
    /\ dropped' = dropped + Len(rows)
    /\ tried' = Append(tried, CurEnc)
    /\ UNCHANGED <<envVars, fs, run, enc, last_err, ranges, i, loopVars, err, stdout, written>>

\* Lines 86-88: the read raises UnicodeDecodeError.
DecodeError ==
    /\ pc = "read"
    /\ r_idx < Len(file.rows)
    /\ DecodeFailsAt(CurEnc, file, r_idx + 1)
    /\ last_err' = CurEnc
    /\ IF enc < Len(encodings_to_try)
       THEN enc' = enc + 1 /\ pc' = "open"
       ELSE enc' = enc /\ pc' = "exhausted"
    /\ UNCHANGED <<envVars, fs, run, r_idx, rows, ranges, i, loopVars, err, stdout,
                   tried, skipped, dropped, written>>

\* Line 90: every encoding failed.
RaiseLast ==
    /\ pc = "exhausted"
    /\ IF last_err # "None"
       THEN Raise("UnicodeDecodeError", 0, last_err)
       ELSE Raise("RuntimeError", 0, "None")
    /\ UNCHANGED <<envVars, fs, run, parserVars, ranges, i, loopVars, stdout, written>>

\* Lines 47-48.
SkipBlank ==
    /\ RowRead
    /\ IsBlankRow(NextRow)
    /\ r_idx' = r_idx + 1
    /\ skipped' = skipped \cup {<<"blank", r_idx + 1>>}
    /\ UNCHANGED <<envVars, fs, run, pc, enc, rows, last_err, ranges, i, loopVars,
                   err, stdout, tried, dropped, written>>

\* Lines 51-54.
RaiseColumns ==
    /\ RowRead
    /\ ~IsBlankRow(NextRow)
    /\ Len(NextRow) < 3
    /\ r_idx' = r_idx + 1
    /\ Raise("columns", r_idx + 1, CurEnc)
    /\ UNCHANGED <<envVars, fs, run, enc, rows, last_err, ranges, i, loopVars,
                   stdout, tried, skipped, dropped, written>>

\* Lines 61-69.
SkipHeader ==
    /\ RowRead
    /\ ~IsBlankRow(NextRow)
    /\ Len(NextRow) >= 3
    /\ IsHeaderRow(r_idx + 1, NextRow)
    /\ r_idx' = r_idx + 1
    /\ skipped' = skipped \cup {<<"header", r_idx + 1>>}
    /\ UNCHANGED <<envVars, fs, run, pc, enc, rows, last_err, ranges, i, loopVars,
                   err, stdout, tried, dropped, written>>

DataRow ==
    /\ RowRead
    /\ ~IsBlankRow(NextRow)
    /\ Len(NextRow) >= 3
    /\ ~IsHeaderRow(r_idx + 1, NextRow)

\* Lines 71-77.
RaiseNotInt ==
    /\ DataRow
    /\ ~PagesAreInts(NextRow)
    /\ r_idx' = r_idx + 1
    /\ Raise("not_int", r_idx + 1, CurEnc)
    /\ UNCHANGED <<envVars, fs, run, enc, rows, last_err, ranges, i, loopVars,
                   stdout, tried, skipped, dropped, written>>

\* Lines 79-80.
RaiseBlankName ==
    /\ DataRow
    /\ PagesAreInts(NextRow)
    /\ strip(NextRow[3]) = <<>>
    /\ r_idx' = r_idx + 1
    /\ Raise("blank_name", r_idx + 1, CurEnc)
    /\ UNCHANGED <<envVars, fs, run, enc, rows, last_err, ranges, i, loopVars,
                   stdout, tried, skipped, dropped, written>>

\* Line 82.
AppendRow ==
    /\ DataRow
    /\ PagesAreInts(NextRow)
    /\ strip(NextRow[3]) # <<>>
    /\ r_idx' = r_idx + 1
    /\ rows' = Append(rows, RowRecord(NextRow))
    /\ UNCHANGED <<envVars, fs, run, pc, enc, last_err, ranges, i, loopVars,
                   err, stdout, tried, skipped, dropped, written>>

\* Lines 84 and 137: the file is read through; main() gets the records.
ReturnRows ==
    /\ pc = "read"
    /\ r_idx = Len(file.rows)
    /\ ranges' = rows
    /\ i' = 1
    /\ pc' = "split"
    /\ UNCHANGED <<envVars, fs, run, parserVars, loopVars, err, stdout, written>>

(***************************************************************************)
(* The loop of main().                                                     *)
(***************************************************************************)
start_page == ranges[i][1]

end_page == ranges[i][2]

InLoop == pc = "split" /\ i <= Len(ranges)

\* Lines 141-148: the first failing sanity check raises.
RaiseRange ==
    /\ InLoop
    /\ RangeCheck(start_page, end_page, total_pages) # "ok"
    /\ Raise(RangeCheck(start_page, end_page, total_pages), i, "None")
    /\ UNCHANGED <<envVars, fs, run, parserVars, ranges, i, loopVars, stdout, written>>

\* Variant: the counter starts at 0.
Extract_CounterFromZero ==
    /\ InLoop
    /\ RangeCheck(start_page, end_page, total_pages) = "ok"
    /\ output_file' = NormalizedName(ranges[i][3])
    /\ writer' = ExtractPages(start_page, end_page)
    /\ out_path' = output_file'
    /\ counter' = 0
    /\ original_stem' = PathStem(output_file')
    /\ pc' = "probe"
    /\ UNCHANGED <<envVars, fs, run, parserVars, ranges, i, err, stdout, written>>

\* Lines 150-165: name, pages and first candidate path of the record.
Extract ==
    /\ InLoop
    /\ RangeCheck(start_page, end_page, total_pages) = "ok"
    /\ output_file' = NormalizedName(ranges[i][3])
    /\ writer' = ExtractPages(start_page, end_page)
    /\ out_path' = output_file'
    /\ counter' = 1
    /\ original_stem' = PathStem(output_file')
    /\ pc' = "probe"
    /\ UNCHANGED <<envVars, fs, run, parserVars, ranges, i, err, stdout, written>>

\* Lines 166-168: one turn of the collision loop.
Probe ==
    /\ pc = "probe"
    /\ exists(fs, caseFold, out_path)
    /\ out_path' = SuffixedName(original_stem, counter)
    /\ counter' = counter + 1
    /\ UNCHANGED <<envVars, fs, run, pc, parserVars, ranges, i, output_file, writer,
                   original_stem, err, stdout, written>>

\* Line 170: the path cannot be opened.
RaiseIO ==
    /\ pc = "probe"
    /\ ~exists(fs, caseFold, out_path)
    /\ OpenFails(out_path)
    /\ Raise("OSError", i, "None")
    /\ UNCHANGED <<envVars, fs, run, parserVars, ranges, i, loopVars, stdout, written>>

\* Lines 170-173: the slice is written and reported.
WriteOut ==
    /\ pc = "probe"
    /\ ~exists(fs, caseFold, out_path)
    /\ ~OpenFails(out_path)
    /\ fs' = WriteFile(fs, caseFold, out_path, [pages |-> writer, tag |-> <<run, i>>])
    /\ stdout' = Append(stdout, <<"OK", out_path, start_page, end_page>>)
    /\ written' = Append(written, [run |-> run, i |-> i, path |-> out_path,
                                   pages |-> writer, rec |-> ranges[i], dir |-> fs])
    /\ i' = i + 1
    /\ pc' = "split"
    /\ UNCHANGED <<envVars, run, parserVars, ranges, loopVars, err>>

\* Variant: the final line is printed inside the loop.
PrintDone_InLoop ==
    /\ pc = "split"
    /\ stdout' = Append(stdout, <<"Done">>)
    /\ pc' = "done"
    /\ UNCHANGED <<envVars, fs, run, parserVars, ranges, i, loopVars, err, written>>

\* Line 175.
PrintDone ==
    /\ pc = "split"
    /\ i > Len(ranges)
    /\ stdout' = Append(stdout, <<"Done">>)
    /\ pc' = "done"
    /\ UNCHANGED <<envVars, fs, run, parserVars, ranges, i, loopVars, err, written>>

\* The operator runs the tool again on the same inputs and directory, after a
\* run that ended and wrote something or completed (a run that failed before
\* its first write would only be repeated as it was).
Rerun ==
    /\ pc = "done" \/ (pc = "failed" /\ \E k \in 1..Len(written) : written[k].run = run)
    /\ run < MaxRuns
    /\ run' = run + 1
    /\ pc' = "open"
    /\ enc' = 1
    /\ r_idx' = 0
    /\ rows' = <<>>
    /\ last_err' = "None"
    /\ ranges' = <<>>
    /\ i' = 0
    /\ output_file' = <<>>
    /\ writer' = <<>>
    /\ out_path' = <<>>
    /\ counter' = 0
    /\ original_stem' = <<>>
    /\ err' = NoErr
    /\ stdout' = <<>>
    /\ tried' = <<>>
    /\ skipped' = {}
    /\ dropped' = 0
    /\ UNCHANGED <<envVars, fs, written>>

Next ==
    \/ OpenAttempt
    \/ DecodeError
    \/ RaiseLast
    \/ SkipBlank
    \/ RaiseColumns
    \/ SkipHeader
    \/ RaiseNotInt
    \/ RaiseBlankName
    \/ AppendRow
    \/ ReturnRows
    \/ RaiseRange
    \/ Extract
    \/ Probe
    \/ RaiseIO
    \/ WriteOut
    \/ PrintDone
    \/ Rerun

Spec == Init /\ [][Next]_vars

TypeOK ==
    /\ pc \in {"open", "read", "exhausted", "split", "probe", "done", "failed"}
    /\ enc \in 1..Len(encodings_to_try)
    /\ r_idx \in 0..Len(file.rows)
    /\ run \in 1..MaxRuns

(***************************************************************************)
(* Properties.                                                             *)
(***************************************************************************)
RangeErrs == {"pages_lt_1", "end_lt_start", "exceeds_total"}

ParseErrs == {"columns", "not_int", "blank_name"}

\* A record within the document: 1 <= start_page <= end_page <= total_pages.
ValidRange(rec) == 1 <= rec[1] /\ rec[1] <= rec[2] /\ rec[2] <= total_pages

\* The writes of run n, and the positions of the records they are for.
WritesOf(n) == {k \in 1..Len(written) : written[k].run = n}

WrittenPositions(n) == {written[k].i : k \in WritesOf(n)}

\* The file a write made is in the directory, with the data written.
StillThere(w) ==
    [name |-> w.path, data |-> [pages |-> w.pages, tag |-> <<w.run, w.i>>]] \in fs

ValidationAbort == pc = "failed" /\ err.kind \in RangeErrs

\* C1 (as stated): when a record fails a validation check the run aborts and
\* no output file has been written for any record of that run.
C1_NoPartialOutput == ValidationAbort => WritesOf(run) = {}

\* C1 (amended): when a record fails a validation check the run aborts at the
\* first such record, in table order; no file is written for it or for a later
\* record, and the files of the records before it have been written and stay.
C1_AbortAtFirstInvalid ==
    ValidationAbort =>
        /\ err.row \in 1..Len(ranges)
        /\ ~ValidRange(ranges[err.row])
        /\ \A j \in 1..(err.row - 1) : ValidRange(ranges[j])
        /\ WrittenPositions(run) = 1..(err.row - 1)
        /\ Cardinality(WritesOf(run)) = err.row - 1
        /\ \A k \in WritesOf(run) : StillThere(written[k])

\* A run that wrote a file and then stopped at an invalid record.
C1_Witness == ValidationAbort /\ err.row >= 2 /\ WritesOf(run) # {}

\* The records that have passed the sanity checks of lines 141-148: those
\* written, and the one being extracted or written.
PastTheGate ==
    {written[k].rec : k \in 1..Len(written)}
        \cup (IF pc = "probe" THEN {ranges[i]} ELSE {})

\* C6: a record reaches extraction and writing only if
\* 1 <= start_page <= end_page <= total_pages; a record violating that aborts
\* the run with the error of the first failing check in the order pages >= 1,
\* end_page >= start_page, end_page <= total_pages, naming the record's 1-based
\* position among the parsed records.
C6_ValidationGate ==
    /\ \A rec \in PastTheGate : ValidRange(rec)
    /\ ValidationAbort =>
          LET s == ranges[err.row][1]
              e == ranges[err.row][2]
          IN /\ err.row = i
             /\ WrittenPositions(run) = 1..(i - 1)
             /\ (s < 1 \/ e < 1) => err.kind = "pages_lt_1"
             /\ (s >= 1 /\ e >= 1 /\ e < s) => err.kind = "end_lt_start"
             /\ (s >= 1 /\ e >= s /\ e > total_pages) => err.kind = "exceeds_total"
             /\ (s >= 1 /\ e >= s /\ e <= total_pages) => FALSE
    /\ (pc = "failed" /\ err.kind = "OSError") => ValidRange(ranges[i])

\* The boundary cases: a record with start_page = end_page = total_pages was
\* written, then a record with end_page = total_pages + 1 was refused.
C6_Witness ==
    /\ ValidationAbort
    /\ err.kind = "exceeds_total"
    /\ ranges[i][2] = total_pages + 1
    /\ \E k \in WritesOf(run) :
          written[k].rec[1] = total_pages /\ written[k].rec[2] = total_pages

\* The other boundary case: a record with start_page = 0 is refused.
C6_WitnessZero == ValidationAbort /\ ranges[i][1] = 0 /\ err.kind = "pages_lt_1"

\* C7: the file written for a record holds exactly the source pages
\* start_page, start_page + 1, ..., end_page, in that order, so it has
\* end_page - start_page + 1 pages; the outputs of a complete run, concatenated
\* in row order, are the concatenation of the records' page ranges.
RECURSIVE Concat(_)
Concat(ss) == IF ss = <<>> THEN <<>> ELSE Head(ss) \o Concat(Tail(ss))

IsPageSpan(pages, s, e) ==
    /\ Len(pages) = e - s + 1
    /\ pages[1] = s
    /\ pages[Len(pages)] = e
    /\ \A k \in 1..(Len(pages) - 1) : pages[k + 1] = pages[k] + 1

\* The data of the file that record j of the current run was written to.
OutputOf(j) ==
    LET w == written[CHOOSE k \in WritesOf(run) : written[k].i = j]
    IN (CHOOSE f \in fs : f.name = w.path).data.pages

C7_Extraction ==
    /\ \A k \in 1..Len(written) :
          /\ IsPageSpan(written[k].pages, written[k].rec[1], written[k].rec[2])
          /\ \A p \in 1..Len(written[k].pages) : written[k].pages[p] \in 1..total_pages
          /\ written[k].run = run => StillThere(written[k])
    /\ pc = "done" =>
          /\ WrittenPositions(run) = 1..Len(ranges)
          /\ Concat([j \in 1..Len(ranges) |-> OutputOf(j)])
                = Concat([j \in 1..Len(ranges) |->
                            [p \in 1..(ranges[j][2] - ranges[j][1] + 1) |-> ranges[j][1] + p - 1]])

\* A complete run of two records, one of them of several pages.
C7_Witness ==
    /\ pc = "done"
    /\ Len(ranges) >= 2
    /\ \E k \in WritesOf(run) : Len(written[k].pages) >= 2

\* C8: no rollback and no write after a failure.  When the run aborts at
\* record i the files of records 1..i-1 are in the directory with the data
\* written, nothing is written for record i or a later one, and "Done" is not
\* printed; "Done" is printed only after a file was written for every record.
DonePrinted == \E k \in 1..Len(stdout) : stdout[k] = <<"Done">>

StartDir ==
    IF WritesOf(run) = {} THEN fs
    ELSE written[MinOf(WritesOf(run))].dir

\* The rows of the table that are neither blank nor the header: the header is
\* the first non-blank row, when it looks like one.
NonBlankRows == {r \in 1..Len(file.rows) : ~IsBlankRow(file.rows[r])}

HeaderRows ==
    IF NonBlankRows = {} THEN {}
    ELSE LET r == MinOf(NonBlankRows)
         IN IF Len(file.rows[r]) >= 3 /\ LooksLikeHeader(file.rows[r]) THEN {r} ELSE {}

RecordRows == NonBlankRows \ HeaderRows

LastWrites == IF pc = "split" /\ i > 1 THEN {Len(written)} ELSE {}

\* The path the collision policy gives a normalized name n in directory dir,
\* when the suffixed names end with ext: n if unused, else the first unused of
\* <stem>_1<ext>, <stem>_2<ext>, ...
PolicyPath(dir, n, stem, ext) ==
    IF ~exists(dir, caseFold, n) THEN n
    ELSE LET free == {k \in 1..(Cardinality(dir) + 1) :
                         ~exists(dir, caseFold, stem \o <<"_">> \o IntToStr(k) \o ext)}
         IN stem \o <<"_">> \o IntToStr(MinOf(free)) \o ext

\* The name as the record gives it, trimmed, with .pdf appended unless it ends
\* with it in any case; its extension is its last four characters.
TrimmedWithPdf(name) ==
    LET t == strip(name)
    IN IF Len(t) >= 4 /\ lower(SubSeq(t, Len(t) - 3, Len(t))) = W_pdf THEN t ELSE t \o W_pdf

ExtensionOf(n) == SubSeq(n, Len(n) - 3, Len(n))

\* The stem: the last component of the path, without the extension.
StemOf(n) ==
    LET cut == SubSeq(n, 1, Len(n) - 4)
        seps == {k \in 1..Len(cut) : cut[k] = "/"}
    IN IF seps = {} THEN cut ELSE SubSeq(cut, MaxOf(seps) + 1, Len(cut))

\* C4 (as stated): the path written to did not exist before the write; it is
\* the normalized name if that is unused, else <stem>_k<extension> for the
\* smallest k >= 1 whose path is unused, with the extension of the normalized
\* name.
C4_KeepsExtension ==
    \A k \in LastWrites :
        LET w == written[k]
            n == TrimmedWithPdf(w.rec[3])
        IN /\ ~exists(w.dir, caseFold, w.path)
           /\ w.path = PolicyPath(w.dir, n, StemOf(n), ExtensionOf(n))

\* C4 (amended): the path written to did not exist before the write; it is
\* the normalized name if that is unused, else <stem>_k.pdf, always with the
\* lower-case extension and directly in the output directory, for the
\* smallest k >= 1 whose path is unused; the collision loop makes at most one
\* turn per file of the directory.
C4_CollisionPolicy ==
    /\ \A k \in LastWrites :
          LET w == written[k]
              n == TrimmedWithPdf(w.rec[3])
          IN /\ ~exists(w.dir, caseFold, w.path)
             /\ w.path = PolicyPath(w.dir, n, StemOf(n), W_pdf)
    /\ pc = "probe" =>
          /\ counter <= Cardinality(fs) + 1
          /\ output_file = TrimmedWithPdf(ranges[i][3])
          /\ out_path \in {output_file} \cup
                {StemOf(output_file) \o <<"_">> \o IntToStr(k) \o W_pdf : k \in 1..(counter - 1)}

\* A record named with an upper-case extension that was written under the
\* second suffix.
C4_Witness ==
    \E k \in 1..Len(written) :
        LET w == written[k]
            n == TrimmedWithPdf(w.rec[3])
        IN /\ ExtensionOf(n) # W_pdf
           /\ w.path = StemOf(n) \o <<"_", "2">> \o W_pdf

\* The write of run n for the record at position j.
WriteFor(n, j) == written[CHOOSE k \in WritesOf(n) : written[k].i = j]

\* The second run of a table is complete, the first run began with an empty
\* directory.
TwoRunsDone ==
    /\ run = 2
    /\ pc = "done"
    /\ WritesOf(1) # {} => written[MinOf(WritesOf(1))].dir = {}
    /\ \A f \in fs : f.data.tag # <<0, 0>>

\* A name with _1 appended to its stem.
WithSuffix1(path) == StemOf(path) \o <<"_", "1">> \o ExtensionOf(path)

PlainNames ==
    /\ \A j, m \in 1..Len(ranges) :
          j # m => ~SameFile(caseFold, StemOf(TrimmedWithPdf(ranges[j][3])),
                                       StemOf(TrimmedWithPdf(ranges[m][3])))
    /\ \A j, m \in 1..Len(ranges) :
          ~SameFile(caseFold, TrimmedWithPdf(ranges[j][3]),
                    StemOf(TrimmedWithPdf(ranges[m][3])) \o <<"_", "1">> \o W_pdf)

LastTried == tried[Len(tried)]

\* The table as text under encoding e.
TextRows(e) == [r \in 1..Len(file.rows) |-> DecodedRow(e, file, r)]

\* C2: header detection applies to the first non-blank row, whatever its
\* position: once that row is read it has been skipped as a header if its
\* first cell, lower-cased, contains "start", or its second contains "stop",
\* or its third contains "filename", or its three cells are exactly start,
\* stop and filename; otherwise it is taken as data; no later row is skipped
\* as a header.
\* The statement is taken for rows of three cells or more.
CellHas(row, c, word) == contains(lower(row[c]), word)

ClaimedHeader(row) ==
    /\ Len(row) >= 3
    /\ \/ CellHas(row, 1, W_start)
       \/ CellHas(row, 2, W_stop)
       \/ CellHas(row, 3, W_filename)
       \/ {lower(strip(row[c])) : c \in 1..3} = {W_start, W_stop, W_filename}

C2_HeaderIsFirstNonBlankRow ==
    (pc \in {"read", "failed", "split"} /\ tried # <<>> /\ err.kind # "UnicodeDecodeError") =>
        LET text == TextRows(LastTried)
            nonblank == {r \in 1..r_idx : ~IsBlankRow(text[r])}
        IN /\ (nonblank # {} /\ Len(text[MinOf(nonblank)]) >= 3) =>
                (ClaimedHeader(text[MinOf(nonblank)])
                    <=> <<"header", MinOf(nonblank)>> \in skipped)
           /\ \A r \in nonblank : r # MinOf(nonblank) => <<"header", r>> \notin skipped

\* What holds of the code: only row 1 of the file is ever skipped as a header,
\* and only when it has three cells or more.
C2_OnlyFileRowOne ==
    \A s \in skipped : s[1] = "header" => s[2] = 1 /\ Len(TextRows(LastTried)[1]) >= 3

\* What holds of the code, the header being row 1 of the file when it has
\* three cells or more and looks like a header: read_ranges_csv raises a
\* malformed-row error exactly when some row that is neither blank nor that
\* header has fewer than 3 cells, a first or second cell that is not an
\* integer, or a third cell that is blank once trimmed; the error names the
\* file row number of the first such row.  Otherwise it returns one record per
\* such row, in file order, page numbers as written, with no range check.
Survives(text, r) ==
    /\ ~IsBlankRow(text[r])
    /\ ~(r = 1 /\ Len(text[r]) >= 3 /\ LooksLikeHeader(text[r]))

MalformedKind(row) ==
    IF Len(row) < 3 THEN "columns"
    ELSE IF ~(IsIntText(strip(row[1])) /\ IsIntText(strip(row[2]))) THEN "not_int"
    ELSE IF strip(row[3]) = <<>> THEN "blank_name"
    ELSE "ok"

Malformed(text, r) == Survives(text, r) /\ MalformedKind(text[r]) # "ok"

RECURSIVE RecordsOf(_, _)
RecordsOf(text, n) ==
    IF n = 0 THEN <<>>
    ELSE IF Survives(text, n)
         THEN Append(RecordsOf(text, n - 1),
                     <<int(strip(text[n][1])), int(strip(text[n][2])), strip(text[n][3])>>)
         ELSE RecordsOf(text, n - 1)

Returned == pc \in {"split", "probe", "done"} \/ (pc = "failed" /\ err.kind \in RangeErrs \cup {"OSError"})

\* The state in which read_ranges_csv has just returned to main(): the result
\* and the history of the call do not change for the rest of the run.
JustReturned == pc = "split" /\ i = 1

MalformedRowError == pc = "failed" /\ err.kind \in ParseErrs

ParserResultForRowOneHeader ==
    /\ MalformedRowError =>
          LET text == TextRows(LastTried)
          IN /\ err.row \in 1..Len(file.rows)
             /\ Malformed(text, err.row)
             /\ err.kind = MalformedKind(text[err.row])
             /\ \A r \in 1..(err.row - 1) : ~Malformed(text, r)
             /\ <<"blank", err.row>> \notin skipped
             /\ <<"header", err.row>> \notin skipped
    /\ JustReturned =>
          LET text == TextRows(LastTried)
          IN /\ \A r \in 1..Len(file.rows) : ~Malformed(text, r)
             /\ ranges = RecordsOf(text, Len(file.rows))
             /\ Len(ranges) = Cardinality({r \in 1..Len(file.rows) : Survives(text, r)})
    /\ (pc = "read" /\ r_idx = Len(file.rows)) =>
          \A r \in 1..Len(file.rows) : ~Malformed(TextRows(LastTried), r)

\* A table whose header was skipped and whose second row is malformed.
ParserWitnessMalformed ==
    /\ MalformedRowError
    /\ err.row = 2
    /\ <<"header", 1>> \in skipped

\* A returned table with a record outside the document, kept as parsed.
ParserWitnessReturned ==
    /\ Returned
    /\ skipped # {}
    /\ \E j \in 1..Len(ranges) : ranges[j][2] > total_pages \/ ranges[j][1] < 1

IsPrefix(s, t) == Len(s) <= Len(t) /\ SubSeq(t, 1, Len(s)) = s

FileDecodes(e) == \A r \in 1..Len(file.rows) : RowDecodes(e, file.rows[r])

\* C10 (as stated): the encodings are tried in the order UTF-8,
\* UTF-8-with-marker, Windows-1252.
C10_Utf8First == IsPrefix(tried, <<"utf-8", "utf-8-sig", "cp1252">>)

\* C10 (amended): the encodings are tried in the order UTF-8-with-marker,
\* UTF-8, Windows-1252; the records returned are those parsed under the first
\* that decodes the whole file, all earlier ones having failed to decode;
\* records collected in an attempt that hits a decoding failure are not carried
\* into the next; a malformed-row error ends the call under the encoding that
\* raised it, no further one being tried; when every encoding fails the error
\* is the decoding failure of the last one tried.
C10_EncodingFallback ==
    /\ IsPrefix(tried, <<"utf-8-sig", "utf-8", "cp1252">>)
    /\ \A k \in 1..(Len(tried) - 1) : ~FileDecodes(tried[k])
    /\ pc = "read" =>
          /\ Len(rows) <= r_idx
          /\ rows = RecordsOf(TextRows(LastTried), r_idx)
    /\ JustReturned =>
          /\ FileDecodes(LastTried)
          /\ ranges = RecordsOf(TextRows(LastTried), Len(file.rows))
    /\ MalformedRowError =>
          /\ err.detail = LastTried
          /\ \A r \in 1..err.row : RowDecodes(LastTried, file.rows[r])
    /\ (pc = "failed" /\ err.kind = "UnicodeDecodeError") =>
          /\ tried = <<"utf-8-sig", "utf-8", "cp1252">>
          /\ err.detail = "cp1252"
          /\ ~FileDecodes("cp1252")
    /\ ~(pc = "failed" /\ err.kind = "RuntimeError")

\* Records were collected and discarded under the first two encodings, and the
\* table was returned as decoded by the third.
C10_Witness ==
    /\ Returned
    /\ LastTried = "cp1252"
    /\ dropped >= 2
    /\ ranges # <<>>

\* Every encoding failed.
C10_WitnessExhausted == pc = "failed" /\ err.kind = "UnicodeDecodeError" /\ file.bom

\* C9, the header being the first non-blank row when it looks like a header
\* (C2): read_ranges_csv raises a
\* malformed-row error exactly when some row that is neither blank nor the
\* header is malformed, and names the first such row; blank rows and the header
\* row are never reported as malformed; otherwise it returns one record per
\* such row.
FirstNonBlank(text) == MinOf({r \in 1..Len(text) : ~IsBlankRow(text[r])})

IsTheHeader(text, r) ==
    /\ ~IsBlankRow(text[r])
    /\ r = FirstNonBlank(text)
    /\ ClaimedHeader(text[r])

DataRowOf(text, r) == ~IsBlankRow(text[r]) /\ ~IsTheHeader(text, r)

C9_HeaderNeverReported ==
    /\ MalformedRowError =>
          LET text == TextRows(LastTried)
          IN /\ DataRowOf(text, err.row)
             /\ MalformedKind(text[err.row]) # "ok"
             /\ \A r \in 1..(err.row - 1) :
                   DataRowOf(text, r) => MalformedKind(text[r]) = "ok"
    /\ JustReturned =>
          LET text == TextRows(LastTried)
          IN /\ \A r \in 1..Len(text) : DataRowOf(text, r) => MalformedKind(text[r]) = "ok"
             /\ Len(ranges) = Cardinality({r \in 1..Len(text) : DataRowOf(text, r)})

====
